---- MODULE Spec2Model ----
(***************************************************************************)
(* Data engine of dashboard_grainbank_py_learn.py: the three acquisition   *)
(* functions get_datalab_trend, get_shopping_data and get_blog_data, each  *)
(* wrapped in st.cache_data(ttl=3600), the normalisation and the seeded    *)
(* simulation inside get_shopping_data, and the reducers of main() that    *)
(* the properties below are about (price tiers, brand concentration, the   *)
(* unseeded random draws of the related-keyword table).                    *)
(*                                                                         *)
(* Strings that the code parses are tuples of one-character strings, so    *)
(* that pd.to_numeric is a parse and not the identity.  A number that may  *)
(* be missing is a record [isnan, v].  A function call ends in one of the  *)
(* outcomes "frame" (a DataFrame is returned), "none" (None is returned)   *)
(* or "raised" (an exception leaves the function).                         *)
(*                                                                         *)
(* Pass-through columns of a listing (title, mallName, category1..4, link) *)
(* take no part in any property below and are left out of the records.     *)
(***************************************************************************)
EXTENDS Integers, Sequences, FiniteSets, TLC

VARIABLES
    CLIENT_ID,      \* module global, line 74: None, "" or a key
    CLIENT_SECRET,  \* module global, line 75
    now,            \* wall clock in seconds, read by the cache
    cache,          \* st.cache_data store: key -> NoEntry or [value, stored]
    rng,            \* global numpy RandomState: [key, pos]
    pc,             \* "idle", or the position inside get_shopping_data
    total_display,  \* argument of the running get_shopping_data call
    start,          \* loop variable of range(1, total_display + 1, 100)
    all_items,      \* local list of get_shopping_data
    requests,       \* HTTP calls issued by the most recent call: [endpoint, start, status]
    last,           \* most recent call: [fn, key, hit, missing, done, after_tab1, tab1]
    df_trend,       \* main(): value bound at line 192
    df_shop,        \* main(): value bound at line 193
    df_blog,        \* main(): value bound at line 194
    tier_stats,     \* main(): table of line 311
    hhi_index,      \* main(): line 452, as a fraction [num, den]
    word_freq,      \* main(): table of line 385
    upstream,       \* what the remote shopping index holds: [catalog, available]
    calls           \* number of get_shopping_data calls made so far

vars == << CLIENT_ID, CLIENT_SECRET, now, cache, rng, pc, total_display, start,
           all_items, requests, last, df_trend, df_shop, df_blog, tier_stats,
           hhi_index, word_freq, upstream, calls >>

-----------------------------------------------------------------------------
(* Bounds of the exploration *)

MaxCalls == 2

MaxTime == 3600

(* Program constants *)

TTL == 3600

PageSize == 100

SEED == 42

PaidFee == 3000

DiscountHigh == 45

-----------------------------------------------------------------------------
(* Generic helpers *)

None == "None"

NoEntry == [present |-> FALSE]

Min(a, b) == IF a < b THEN a ELSE b

Max(a, b) == IF a > b THEN a ELSE b

Range(s) == { s[i] : i \in DOMAIN s }

NaN == [isnan |-> TRUE, v |-> 0]

Num(n) == [isnan |-> FALSE, v |-> n]

Digits == << "0", "1", "2", "3", "4", "5", "6", "7", "8", "9" >>

DigitVal(c) == (CHOOSE i \in 1..10 : Digits[i] = c) - 1

IsDigit(c) == \E i \in 1..10 : Digits[i] = c

RECURSIVE DecimalValue(_)
DecimalValue(s) ==
    IF s = << >> THEN 0
    ELSE 10 * DecimalValue(SubSeq(s, 1, Len(s) - 1)) + DigitVal(s[Len(s)])

\* pd.to_numeric(x, errors='coerce') on one string: a run of decimal digits
\* parses to its value, anything else (the empty string included) to NaN.
to_numeric(s) ==
    IF s # << >> /\ \A i \in 1..Len(s) : IsDigit(s[i])
    THEN Num(DecimalValue(s))
    ELSE NaN

-----------------------------------------------------------------------------
(* numpy's global RandomState (MT19937).                                   *)
(* np.random.seed(42) at line 135 puts the generator at the start of one   *)
(* fixed stream of 32-bit words.  The two tables hold what the draws of    *)
(* this program read from that stream: for the j-th word its low six bits  *)
(* (masked rejection sampling of randint), and floor(1000 * u) for the     *)
(* double u that random_sample forms from words j and j+1 (the inverse-CDF *)
(* sampling of choice; u < 0.7, u < 0.4 and u < 0.9 agree with             *)
(* floor(1000 * u) < 700, 400, 900 for every entry).                       *)

MT42Low6 ==
  << 38, 51, 28, 14, 42, 7, 60, 20, 38, 57, 18, 22, 10, 10, 23, 52, 35, 39, 23, 2,
     21, 52, 1, 23, 43, 29, 37, 1, 63, 59, 20, 32, 11, 57, 21, 60, 43, 24, 48, 26,
     58, 62, 41, 63, 27, 59, 15, 14, 61, 61, 46, 61, 50, 43, 54, 51, 63, 56, 2, 36,
     50, 6, 20, 8, 38, 17, 3, 24, 59, 13, 49, 57, 8, 25, 52, 1, 19, 27, 46, 59,
     6, 43, 60, 7, 46, 34, 13, 16, 35, 49, 39, 3, 1, 61, 5, 53, 41, 3, 53, 28,
     62, 17, 25, 43, 33, 9, 61, 35, 13, 30, 47, 14, 7, 13, 22, 59, 56, 61, 39, 20,
     15, 44, 17, 46, 52, 23, 25, 24, 59, 59, 59, 44, 40, 28, 14, 44, 0, 24, 6, 8,
     23, 0, 43, 7, 23, 62, 10, 50, 16, 7, 34, 34, 32, 58, 4, 41, 38, 57, 40, 27,
     6, 8, 7, 11, 33, 32, 47, 54, 22, 61, 23, 36, 34, 43, 39, 21, 26, 34, 0, 34,
     36, 46, 13, 2, 0, 4, 25, 54, 62, 13, 38, 26, 8, 14, 14, 25, 41, 59, 12, 50,
     62, 31, 38, 48, 51, 60, 31, 3, 29, 36, 22, 38, 44, 14, 42, 28, 35, 12, 31, 6,
     58, 50, 21, 27, 1, 41, 44, 61, 56, 52, 5, 27, 27, 43, 43, 19, 29, 61, 10, 63,
     57, 54, 27, 24, 38, 61, 32, 0, 56, 26, 61, 56, 51, 12, 40, 2, 38, 5, 7, 26,
     8, 61, 36, 32, 50, 41, 43, 23, 14, 58, 53, 31, 31, 23, 40, 51, 48, 61, 48, 57,
     51, 11, 61, 38, 1, 2, 48, 36, 48, 55, 16, 58, 48, 1, 1, 27, 53, 22, 36, 31,
     32, 0, 18, 61, 1, 52, 43, 25, 31, 5, 31, 54, 3, 54, 10, 55, 58, 16, 62, 37,
     23, 4, 51, 33, 5, 21, 10, 62, 47, 15, 32, 8, 59, 58, 5, 15, 28, 2, 19, 59,
     58, 35, 18, 25, 2, 62, 18, 19, 31, 6, 51, 40, 32, 39, 63, 38, 17, 39, 0, 10,
     27, 56, 24, 49, 22, 30, 29, 41, 34, 6, 59, 15, 25, 47, 56, 51, 59, 48, 1, 0,
     47, 61, 11, 4, 36, 31, 58, 54, 8, 40, 34, 18, 47, 15, 2, 19, 23, 53, 55, 32,
     23, 51, 10, 48, 7, 35, 37, 39, 19, 61, 34, 47, 61, 24, 34, 24, 28, 17, 63, 45,
     17, 1, 53, 34, 15, 60, 40, 35, 32, 3, 32, 13, 20, 47, 19, 55, 63, 7, 6, 2,
     16, 63, 32, 47, 11, 58, 50, 21, 54, 21, 45, 29, 37, 37, 44, 50, 53, 7, 26, 26,
     33, 20, 29, 32, 27, 46, 63, 32, 4, 59, 60, 47, 18, 3, 34, 63, 48, 63, 16, 43,
     27, 29, 28, 45, 52, 5, 34, 59, 40, 36, 23, 28, 48, 45, 52, 30, 34, 59, 32, 51,
     62, 60, 20, 31, 22, 32, 63, 2, 63, 17, 24, 41, 30, 53, 57, 2, 39, 45, 23, 49,
     31, 46, 21, 22, 1, 62, 26, 41, 1, 25, 16, 39, 32, 8, 42, 53, 47, 38, 28, 41,
     54, 25, 34, 49, 24, 23, 12, 59, 57, 6, 56, 35, 44, 19, 0, 7, 63, 45, 15, 13,
     11, 50, 22, 14, 27, 33, 1, 31, 22, 62, 21, 50, 24, 57, 62, 61, 60, 21, 57, 57,
     21, 48, 51, 41, 5, 14, 53, 42, 59, 36, 32, 7, 52, 59, 43, 43, 4, 38, 3, 5,
     44, 31, 51, 29, 46, 34, 54, 39, 51, 15, 12, 49, 59, 41, 29, 18, 16, 55, 62, 18,
     27, 57, 54, 25, 36, 25, 52, 61, 22, 62, 8, 11, 52, 0, 57, 57, 0, 46, 33, 31,
     61, 53, 47, 24, 39, 44, 52, 0, 15, 60, 38, 63, 62, 4, 21, 28, 54, 2, 11, 25,
     15, 50, 36, 21, 56, 28, 13, 27, 4, 46, 48, 29, 45, 61, 51, 4, 11, 15, 25, 25,
     47, 20, 38, 35, 32, 61, 29, 36, 22, 57, 9, 53, 4, 35, 33, 51, 30, 9, 57, 18,
     57, 31, 0, 55, 4, 44, 3, 15, 23, 15, 54, 1, 48, 27, 63, 31, 26, 19, 23, 11,
     49, 34, 59, 32, 32, 60, 50, 42, 36, 11, 2, 0, 32, 39, 9, 42, 43, 28, 12, 11,
     30, 45, 1, 60, 50, 49, 34, 22, 16, 25, 7, 28, 25, 9, 25, 61, 33, 50, 40, 6,
     3, 57, 52, 49, 44, 10, 28, 55, 35, 24, 20, 60, 56, 35, 9, 36, 8, 23, 63, 34,
     48, 34, 47, 35, 17, 48, 38, 31, 23, 22, 61, 31, 36, 11, 48, 54, 12, 22, 24, 34,
     40, 29, 16, 48, 61, 19, 47, 24, 21, 12, 58, 18, 48, 35, 11, 60, 40, 18, 11, 8,
     6, 27, 13, 30, 63, 51, 18, 57, 46, 15, 52, 4, 34, 11, 24, 51, 58, 20, 35, 52,
     22, 15, 56, 38, 44, 52, 41, 57, 38, 13, 30, 57, 4, 34, 22, 28, 42, 10, 17, 46,
     11, 8, 9, 57, 43, 16, 60, 37, 6, 45, 12, 39, 41, 8, 49, 26, 57, 1, 4, 28,
     36, 37, 18, 7, 47, 44, 0, 21, 51, 16, 62, 6, 24, 44, 3, 35, 5, 59, 30, 18,
     60, 43, 53, 38, 26, 9, 25, 18, 38, 61, 2, 44, 12, 49, 27, 61, 57, 19, 27, 7,
     60, 62, 40, 38, 0, 2, 12, 27, 61, 56, 62, 59, 48, 24, 55, 32, 37, 52, 5, 57,
     43, 44, 31, 44, 60, 46, 20, 15, 53, 20, 10, 59, 36, 35, 34, 18, 19, 56, 17, 46,
     40, 48, 13, 14, 30, 0, 52, 53, 53, 2, 15, 22, 56, 10, 11, 9, 31, 15, 7, 37,
     11, 23, 27, 52, 7, 57, 27, 35, 25, 7, 57, 59, 49, 27, 27, 36, 40, 35, 63, 26,
     53, 62, 16, 8, 32, 52, 19, 12, 27, 47, 28, 12, 45, 34, 60, 5, 17, 50, 63, 4,
     46, 24, 1, 9, 55, 29, 49, 58, 44, 4, 54, 55, 32, 53, 0, 17, 31, 46, 48, 10,
     20, 25, 62, 24, 21, 58, 26, 48, 12, 32, 33, 40, 34, 62, 0, 20, 47, 54, 5, 27,
     16, 4, 30, 4, 37, 2, 52, 22, 36, 52, 36, 9, 9, 18, 16, 20, 13, 8, 45, 0,
     50, 44, 12, 3, 61, 0, 48, 39, 31, 33, 27, 30, 7, 38, 25, 57, 33, 53, 53, 2,
     58, 49, 11, 0, 53, 43, 4, 29, 29, 58, 56, 16, 47, 62, 46, 22, 14, 36, 20, 13,
     1, 10, 50, 38, 37, 63, 59, 33, 37, 49, 33, 17, 29, 14, 26, 50, 62, 33, 51, 56,
     37, 32, 23, 14, 59, 29, 54, 41, 50, 16, 4, 28, 3, 9, 55, 16, 9, 16, 59, 19,
     23, 4, 33, 5, 52, 1, 12, 61, 42, 42, 47, 10, 50, 46, 56, 22, 54, 15, 30, 10,
     53, 15, 7, 3, 39, 3, 55, 24, 2, 31, 2, 26, 28, 31, 49, 60, 57, 50, 18, 20,
     4, 17, 27, 41, 60, 21, 20, 5, 0, 4, 40, 11, 25, 45, 33, 48, 13, 25, 44, 26,
     8, 25, 56, 46, 56, 21, 46, 55, 29, 42, 62, 47, 60, 16, 25, 35, 0, 7, 48, 34,
     60, 51, 14, 46, 62, 55, 21, 13, 25, 27, 22, 13, 23, 1, 44, 25, 13, 58, 55, 50,
     6, 2, 46, 22, 45, 42, 46, 59, 44, 17, 57, 37, 34, 50, 14, 63, 24, 54, 36, 27,
     9, 38, 56, 16, 38, 21, 25, 61, 43, 24, 16, 12, 19, 24, 3, 9, 2, 40, 44, 17 >>

MT42Unit1000 ==
  << 374, 796, 950, 183, 731, 779, 598, 596, 156, 445, 155, 99, 58, 459, 866, 333, 601, 142, 708, 650,
     20, 56, 969, 721, 832, 938, 212, 0, 181, 992, 183, 617, 304, 611, 524, 7, 431, 23, 291, 524,
     611, 399, 139, 46, 292, 973, 366, 232, 456, 90, 785, 618, 199, 382, 514, 983, 592, 466, 46, 859,
     607, 680, 170, 450, 65, 13, 948, 942, 965, 563, 808, 385, 304, 15, 97, 230, 684, 241, 440, 683,
     122, 609, 495, 833, 34, 173, 909, 391, 258, 182, 662, 755, 311, 425, 520, 207, 546, 567, 184, 31,
     969, 842, 775, 449, 939, 395, 894, 926, 597, 727, 921, 326, 88, 570, 195, 520, 45, 961, 325, 844,
     388, 747, 271, 539, 828, 586, 356, 965, 280, 607, 542, 275, 140, 296, 802, 165, 74, 15, 986, 423,
     772, 394, 198, 293, 5, 14, 815, 198, 706, 711, 729, 790, 771, 605, 74, 926, 358, 651, 115, 914,
     863, 850, 623, 449, 330, 95, 63, 370, 310, 668, 325, 665, 729, 591, 637, 274, 887, 561, 472, 382,
     119, 971, 713, 848, 760, 721, 561, 235, 770, 256, 493, 40, 522, 710, 427, 110, 25, 439, 107, 201,
     31, 895, 636, 475, 314, 563, 508, 695, 907, 139, 249, 604, 410, 539, 755, 203, 228, 942, 76, 598,
     289, 694, 161, 880, 929, 624, 808, 295, 633, 105, 871, 456, 803, 218, 186, 416, 892, 883, 539, 324,
     807, 122, 896, 356, 318, 906, 110, 272, 227, 647, 427, 0, 818, 352, 860, 304, 6, 164, 510, 534,
     417, 484, 222, 692, 119, 269, 337, 244, 942, 168, 323, 218, 518, 558, 703, 403, 363, 64, 971, 253,
     962, 246, 251, 696, 497, 712, 300, 148, 284, 997, 36, 266, 609, 976, 502, 411, 51, 33, 278, 345,
     908, 634, 239, 680, 144, 530, 489, 447, 985, 552, 242, 592, 672, 80, 761, 369, 237, 242, 728, 803,
     367, 470, 632, 983, 633, 398, 535, 816, 90, 798, 835, 150, 320, 508, 186, 695, 40, 858, 590, 325,
     677, 220, 16, 711, 512, 809, 226, 348, 645, 96, 174, 940, 690, 397, 386, 517, 936, 837, 137, 675,
     341, 735, 113, 209, 924, 541, 877, 695, 257, 228, 659, 174, 817, 982, 555, 516, 529, 260, 241, 996,
     93, 965, 897, 558, 900, 882, 633, 188, 339, 278, 349, 700, 725, 846, 897, 856, 887, 404, 779, 887,
     642, 850, 84, 935, 161, 785, 898, 668, 606, 580, 9, 372, 101, 940, 663, 973, 5, 283, 160, 305,
     548, 485, 691, 448, 651, 994, 224, 175, 712, 18, 237, 493, 325, 178, 746, 366, 649, 744, 849, 720,
     657, 308, 568, 542, 93, 508, 367, 636, 265, 250, 243, 589, 973, 978, 393, 486, 892, 906, 631, 434,
     794, 350, 502, 645, 576, 668, 492, 864, 195, 230, 722, 499, 280, 572, 24, 768, 645, 43, 177, 994,
     940, 469, 953, 279, 914, 883, 370, 747, 15, 953, 928, 330, 428, 552, 966, 572, 963, 980, 853, 75,
     294, 305, 385, 190, 851, 268, 316, 485, 169, 372, 556, 394, 936, 844, 696, 930, 570, 70, 97, 208,
     615, 671, 990, 358, 140, 254, 518, 295, 877, 322, 740, 848, 697, 136, 702, 708, 359, 552, 293, 296,
     809, 419, 810, 256, 867, 611, 913, 81, 511, 5, 501, 627, 798, 194, 649, 70, 701, 396, 795, 50,
     890, 886, 337, 27, 375, 578, 93, 438, 578, 672, 35, 328, 465, 155, 542, 981, 286, 838, 590, 860,
     30, 250, 37, 38, 822, 303, 360, 537, 127, 326, 522, 827, 769, 271, 215, 965, 622, 457, 85, 842,
     51, 194, 531, 411, 540, 699, 637, 138, 726, 132, 975, 969, 516, 714, 322, 41, 795, 398, 270, 433,
     438, 744, 78, 250, 25, 184, 962, 80, 835, 428, 695, 688, 408, 58, 173, 915, 156, 442, 250, 239,
     549, 93, 714, 182, 660, 934, 279, 638, 954, 516, 737, 657, 554, 435, 611, 730, 419, 47, 247, 566,
     355, 158, 757, 120, 14, 341, 116, 91, 46, 94, 40, 311, 855, 979, 703, 175, 474, 17, 97, 763,
     491, 806, 473, 346, 173, 464, 433, 649, 398, 48, 615, 949, 635, 886, 45, 260, 374, 15, 625, 933,
     503, 501, 856, 539, 658, 683, 162, 615, 70, 943, 642, 944, 26, 867, 585, 636, 940, 800, 575, 677,
     388, 573, 643, 128, 458, 811, 545, 820, 941, 625, 386, 820, 961, 651, 905, 206, 195, 273, 69, 214,
     100, 377, 18, 38, 94, 618, 683, 336, 71, 655, 318, 385, 844, 681, 23, 340, 814, 260, 281, 496,
     118, 692, 696, 348, 628, 936, 877, 39, 735, 417, 803, 967, 282, 547, 177, 423, 750, 568, 806, 575,
     990, 731, 412, 127, 372, 250, 776, 580, 340, 867, 930, 561, 858, 238, 428, 679, 750, 739, 754, 238,
     103, 377, 902, 534, 505, 496, 826, 389, 320, 297, 895, 99, 389, 53, 10, 958, 905, 847, 91, 354,
     319, 956, 950, 676, 950, 482, 573, 493, 631, 83, 448, 91, 293, 602, 328, 553, 672, 212, 752, 946,
     791, 781, 789, 113, 91, 930, 494, 974, 57, 995, 549, 55, 441, 737, 887, 545, 350, 705, 117, 968,
     142, 688, 761, 836, 618, 866, 101, 838, 84, 426, 700, 222, 72, 396, 821, 891, 706, 146, 81, 513,
     84, 233, 986, 581, 374, 863, 370, 880, 812, 236, 947, 907, 986, 591, 753, 350, 376, 708, 83, 481,
     777, 377, 558, 705, 424, 248, 906, 330, 111, 434, 492, 253, 11, 405, 468, 571, 56, 740, 118, 767,
     117, 822, 649, 744, 746, 681, 583, 237, 962, 400, 374, 477, 285, 82, 868, 528, 223, 436, 963, 802,
     12, 977, 969, 556, 43, 322, 891, 43, 527, 924, 992, 919, 73, 252, 553, 695, 969, 75, 523, 166,
     629, 216, 695, 294, 454, 995, 627, 696, 584, 384, 901, 737, 45, 915, 280, 958, 950, 57, 890, 394,
     455, 106, 620, 335, 277, 169, 188, 646, 463, 388, 353, 229, 583, 265, 77, 360, 974, 259, 986, 453,
     698, 32, 536, 279, 309, 411, 813, 602, 684, 270, 162, 133, 910, 76, 822, 940, 949, 416, 725, 581,
     613, 919, 418, 82, 932, 876, 866, 551, 45, 164, 26, 411, 376, 777, 810, 480, 987, 985, 150, 376,
     594, 749, 380, 392, 969, 829, 842, 569, 838, 63, 468, 36, 414, 133, 273, 13, 56, 75, 864, 691,
     812, 534, 999, 749, 996, 913, 555, 585, 768, 726, 944, 757, 849, 377, 247, 241, 450, 205, 129, 251,
     954, 274, 606, 207, 228, 878, 671, 756, 618, 46, 358, 268, 113, 22, 671, 498, 520, 476, 772, 831,
     520, 307, 852, 816, 551, 967, 560, 88, 876, 791, 403, 589, 134, 480, 28, 420, 755, 784, 620, 639,
     704, 805, 212, 903, 136, 617, 14, 980, 350, 608, 589, 636, 392, 554, 437, 91, 904, 726, 348, 547,
     513, 450, 783, 910, 396, 297, 622, 523, 862, 697, 949, 796, 147, 459, 926, 842, 492, 768, 258, 66,
     459, 45, 980, 620, 492, 347, 328, 209, 633, 579, 240, 341, 75, 537, 128, 460, 128, 584, 151, 400,
     138, 697, 640, 180, 181, 696, 345, 411, 896, 874, 473, 515, 667, 973, 172, 601, 192, 223, 40, 821,
     168, 345, 278, 347, 177, 31, 88, 548, 120, 534, 460, 355, 206, 894, 364, 128, 503, 330, 690, 321,
     39, 92, 799, 481, 627, 687, 81, 511, 873, 156, 920, 377, 61, 2, 276, 868, 806, 84, 748, 597,
     184, 986, 209, 536, 370, 924, 484, 236, 618, 759, 368, 531, 462, 720, 747, 62, 36, 147, 252, 133,
     713, 687, 895, 844, 511, 749, 532, 30, 107, 867, 447, 354, 532, 397, 242, 104, 269, 737, 377, 182,
     20, 563, 322, 840, 211, 89, 327, 535, 119, 233, 890, 342, 593, 473, 679, 355, 789, 648, 498, 479 >>

TableLen == Len(MT42Low6)

\* State of the generator before any seed call.  It comes from OS entropy;
\* its words are an arbitrary stream that differs from the seed-42 stream.
Unseeded == [key |-> 0, pos |-> 0]

\* np.random.seed(s)
seed(s) == [key |-> s, pos |-> 0]

\* Low six bits of the j-th word after the state r.
Low6(r, j) ==
    IF r.key = SEED THEN MT42Low6[r.pos + j] ELSE ((r.pos + j) * 37 + 11) % 64

\* floor(1000 * u), u the double formed from words j and j+1 after r.
Unit1000(r, j) ==
    IF r.key = SEED THEN MT42Unit1000[r.pos + j] ELSE ((r.pos + j) * 613 + 101) % 1000

Advance(r, k) == [r EXCEPT !.pos = r.pos + k]

\* Smallest mask 2^k - 1 that covers top (gen_mask of numpy).
gen_mask(top) == CHOOSE m \in {0, 1, 3, 7, 15, 31, 63} :
                    m >= top /\ \A m2 \in {0, 1, 3, 7, 15, 31, 63} : m2 >= top => m <= m2

\* Masked rejection sampling of n integers in 0..top (the loop
\* "do val = next_uint32() & mask while val > top"): the words whose masked
\* value is <= top are kept, in stream order, until n are kept.
\* Result: the values, and the number of words read.
BoundedMasked(r, n, top, mask) ==
    LET Kept(j) == Low6(r, j) % (mask + 1) <= top
        kept    == SelectSeq([j \in 1..(TableLen - r.pos) |-> j], Kept)
    IN  [out  |-> [i \in 1..n |-> Low6(r, kept[i]) % (mask + 1)],
         used |-> IF n = 0 THEN 0 ELSE kept[n]]

\* np.random.randint(low, high, size=n): [out, rng]
randint(r, low, high, n) ==
    LET top == high - 1 - low
        d   == BoundedMasked(r, n, top, gen_mask(top))
    IN  [out |-> [i \in 1..n |-> low + d.out[i]], rng |-> Advance(r, d.used)]

\* Index chosen by searchsorted(cdf, u, side='right') for cdf in thousandths.
CdfIndex(cdf, u) == Cardinality({ k \in 1..Len(cdf) : cdf[k] <= u }) + 1

\* np.random.choice(options, size=n, p=...) with cumulative p given in
\* thousandths: n doubles are drawn, two words each.  [out, rng]
choice(r, options, cdf, n) ==
    [out |-> [i \in 1..n |-> options[CdfIndex(cdf, Unit1000(r, 2 * i - 1))]],
     rng |-> Advance(r, 2 * n)]

-----------------------------------------------------------------------------
(* The remote shopping index.  A request with display=100 and start=s is   *)
(* answered, when it succeeds, with the listings s .. s+99 that exist.     *)
(* Every field of a listing arrives as a string.                           *)

RECURSIVE Dec(_)
Dec(n) == IF n < 10 THEN << Digits[n + 1] >> ELSE Append(Dec(n \div 10), Digits[(n % 10) + 1])

Listing(lp, hp, b, t) == [lprice |-> lp, hprice |-> hp, brand |-> b, productType |-> t]

TierPrices == << 0, 10000, 10001, 30000, 30001, 50000, 50001, 100000, 100001, 1000000, 1000001 >>

CatalogTiers == [i \in 1..Len(TierPrices) |-> Listing(Dec(TierPrices[i]), << >>, "A", "1")]

CatalogDuo == << Listing(Dec(14), Dec(20), "A", "2"), Listing(Dec(9900), << >>, "B", "1") >>

CatalogTrio ==
    << Listing(Dec(2), << >>, "", "3"), Listing(Dec(25900), Dec(30000), "A", "1"),
       Listing(Dec(2), Dec(2), "B", "2") >>

CatalogDirty ==
    << Listing(Dec(2), << >>, "A", "1"), Listing(<< "a", "b", "c" >>, << >>, "A", "1"),
       Listing(<< >>, Dec(5), "B", "2") >>

Catalogs == { CatalogTiers, CatalogDuo, CatalogTrio, CatalogDirty }

Availables == { 0, 1, 150, 300 }

Upstreams == { [catalog |-> c, available |-> a] : c \in Catalogs, a \in Availables }

ListingAt(u, id) == u.catalog[((id - 1) % Len(u.catalog)) + 1]

\* res.json()['items'] of a successful request with start = s (line 120)
PageItems(u, s) ==
    LET n == Min(PageSize, Max(0, u.available - s + 1))
    IN  [i \in 1..n |-> ListingAt(u, s + i - 1)]

HttpStatuses == { 200, 500 }

RequestedCounts == { 1, 100, 101, 250 }

-----------------------------------------------------------------------------
(* get_shopping_data, lines 126-147: normalisation and simulation.         *)

\* Pairs (lprice, discount_rate), among the prices of the catalogs above,
\* for which the IEEE double lprice / (1 - discount_rate/100) falls just
\* below the exact quotient, which is an integer: 14 / 0.56 evaluates to
\* 24.999999999999996.
FloatShort == { << 14, 44 >>, << 25900, 44 >> }

original_price_round(lp, dr) == (200 * lp + (100 - dr)) \div (2 * (100 - dr))

\* Line 145: (lprice / (1 - discount_rate/100)).astype(int), the double
\* quotient truncated toward zero.
original_price(lp, dr) ==
    LET exact == (100 * lp) \div (100 - dr)
    IN  IF << lp, dr >> \in FloatShort THEN exact - 1 ELSE exact

\* Line 141: int(x*0.9) and int(x*1.5); the thousands separators of the
\* formatted text are not modelled.
option_price_range(lp) == [lo |-> (9 * lp) \div 10, hi |-> (3 * lp) \div 2]

\* Line 136; the two Korean labels are written "ad_catalog" and "general".
p_type(t) == IF t \in { "2", "3" } THEN "ad_catalog" ELSE "general"

\* Line 138; the labels of line 137 are written "paid" and "free".
delivery_fee_amount(flag) == IF flag = "paid" THEN PaidFee ELSE 0

SimulationStartUnseeded(r) == r

\* np.random.seed(42) of line 135, as the state the draws start from.
SimulationStart(r) == seed(SEED)

\* Lines 126-147 on a non-empty all_items, entered with generator state r.
\* Result: [outcome, rows, rng].  int(x*0.9) of line 141 raises ValueError
\* on a NaN, after the draws of line 137 have been made.
ProcessListings(items, r) ==
    LET n    == Len(items)
        lp   == [i \in 1..n |-> to_numeric(items[i].lprice)]
        hp   == [i \in 1..n |-> to_numeric(items[i].hprice)]
        r1   == SimulationStart(r)
        fee  == choice(r1, << "paid", "free" >>, << 700, 1000 >>, n)
        disc == randint(fee.rng, 0, DiscountHigh, n)
    IN  IF \E i \in 1..n : lp[i].isnan
        THEN [outcome |-> "raised", rows |-> << >>, rng |-> fee.rng]
        ELSE [outcome |-> "frame",
              rows |-> [i \in 1..n |->
                  [lprice |-> lp[i].v,
                   hprice |-> hp[i],
                   brand |-> items[i].brand,
                   productType |-> items[i].productType,
                   p_type |-> p_type(items[i].productType),
                   has_delivery_fee |-> fee.out[i],
                   delivery_fee_amount |-> delivery_fee_amount(fee.out[i]),
                   option_price_range |-> option_price_range(lp[i].v),
                   discount_rate |-> disc.out[i],
                   original_price |-> original_price(lp[i].v, disc.out[i])]],
              rng |-> disc.rng]

-----------------------------------------------------------------------------
(* get_datalab_trend and get_blog_data: payloads and normalisation.        *)

Keywords == << "sindongjin", "samgwang" >>

\* res.json()['results'] of the trend endpoint: one group per keyword.
TrendPayloads ==
    { << >>,
      [g \in 1..Len(Keywords) |->
          [title |-> Keywords[g],
           data |-> << [period |-> 1, ratio |-> 100 - 10 * g],
                       [period |-> 2, ratio |-> 40 + 10 * g] >>]] }

\* Lines 97-102: one frame per group with the keyword column added, then
\* pd.concat, or None when there is no group.
RECURSIVE ConcatTrend(_)
ConcatTrend(results) ==
    IF results = << >> THEN << >>
    ELSE LET r == Head(results)
         IN  [i \in 1..Len(r.data) |->
                 [period |-> r.data[i].period, ratio |-> r.data[i].ratio, keyword |-> r.title]]
             \o ConcatTrend(Tail(results))

TrendValue(status, results) ==
    IF status = 200 /\ results # << >>
    THEN [outcome |-> "frame", rows |-> ConcatTrend(results)]
    ELSE [outcome |-> "none", rows |-> << >>]

BoldOpen == << "<", "b", ">" >>

BoldClose == << "<", "/", "b", ">" >>

\* str.replace(pat, '', regex=False): every occurrence of pat, left to right
RECURSIVE StrRemove(_, _)
StrRemove(s, pat) ==
    IF Len(s) < Len(pat) THEN s
    ELSE IF SubSeq(s, 1, Len(pat)) = pat
         THEN StrRemove(SubSeq(s, Len(pat) + 1, Len(s)), pat)
         ELSE << Head(s) >> \o StrRemove(Tail(s), pat)

\* Lines 157-158
strip_bold(s) == StrRemove(StrRemove(s, BoldOpen), BoldClose)

NaT == [isnat |-> TRUE, y |-> 0, m |-> 0, d |-> 0]

DaysIn(y, m) ==
    IF m = 2 THEN (IF (y % 4 = 0 /\ y % 100 # 0) \/ y % 400 = 0 THEN 29 ELSE 28)
    ELSE IF m \in { 4, 6, 9, 11 } THEN 30 ELSE 31

\* Line 159: pd.to_datetime(format='%Y%m%d', errors='coerce') on the shapes
\* the payloads below use: eight digits, or text that is not a date.
to_datetime(s) ==
    IF Len(s) = 8 /\ \A i \in 1..8 : IsDigit(s[i])
    THEN LET y == DecimalValue(SubSeq(s, 1, 4))
             m == DecimalValue(SubSeq(s, 5, 6))
             d == DecimalValue(SubSeq(s, 7, 8))
         IN  IF m \in 1..12 /\ d \in 1..DaysIn(y, m)
             THEN [isnat |-> FALSE, y |-> y, m |-> m, d |-> d]
             ELSE NaT
    ELSE NaT

\* res.json()['items'] of the blog endpoint
BlogPayloads ==
    { << >>,
      << [title |-> << "<", "b", ">", "r", "i", "c", "e", "<", "/", "b", ">", " ", "o", "k" >>,
          description |-> << "n", "e", "w", " ", "<", "b", ">", "r", "i", "c", "e", "<", "/", "b", ">" >>,
          postdate |-> << "2", "0", "2", "4", "0", "2", "2", "9" >>],
         [title |-> << "r", "i", "c", "e" >>,
          description |-> << >>,
          postdate |-> << "2", "0", "2", "3", "0", "2", "2", "9" >>] >> }

\* Lines 155-161.  pd.DataFrame([]) has no columns, so df['title'] of
\* line 157 raises KeyError when the endpoint returns no item.
BlogValue(status, items) ==
    IF status # 200 THEN [outcome |-> "none", rows |-> << >>]
    ELSE IF items = << >> THEN [outcome |-> "raised", rows |-> << >>]
    ELSE [outcome |-> "frame",
          rows |-> [i \in 1..Len(items) |->
              [title |-> strip_bold(items[i].title),
               description |-> strip_bold(items[i].description),
               postdate |-> to_datetime(items[i].postdate)]]]

-----------------------------------------------------------------------------
(* st.cache_data(ttl=3600), lines 83, 105 and 149: one entry per function  *)
(* and argument tuple, served for ttl seconds after it was written.  A     *)
(* value is stored when the function returns, None included; nothing is    *)
(* stored when it raises.                                                  *)

TrendKey == << "trend", 0 >>

BlogKey == << "blog", 0 >>

ShopKey(n) == << "shop", n >>

CacheKeys == { TrendKey, BlogKey } \cup { ShopKey(n) : n \in RequestedCounts }

FreshForever(entry, t) == entry.present

\* An entry written at time stored is served while t < stored + ttl.
Fresh(entry, t) == entry.present /\ t < entry.stored + TTL

CacheHit(key) == Fresh(cache[key], now)

Stored(value) == [present |-> TRUE, value |-> value, stored |-> now]

CacheAfter(key, value) ==
    IF value.outcome = "raised" THEN cache ELSE [cache EXCEPT ![key] = Stored(value)]

FalsyNoneOnly(x) == x = None

\* Lines 86, 112 and 152: "not CLIENT_ID or not CLIENT_SECRET"
Falsy(x) == x = None \/ x = ""

CredentialsMissing == Falsy(CLIENT_ID) \/ Falsy(CLIENT_SECRET)

NoneValue == [outcome |-> "none", rows |-> << >>]

Unset == [outcome |-> "unset", rows |-> << >>]

\* Record of a call.  A rerun of the script calls get_shopping_data once
\* and draws tab 1 once, so that call opens a new run.
CallRecord(fn, key, hit, done) ==
    [fn |-> fn, key |-> key, hit |-> hit, missing |-> CredentialsMissing, done |-> done,
     after_tab1 |-> IF fn = "shop" THEN last.tab1 ELSE last.after_tab1,
     tab1 |-> IF fn = "shop" THEN FALSE ELSE last.tab1]

-----------------------------------------------------------------------------
(* State after the module body has run (lines 73-80) and before any call.  *)

\* hhi_index before line 452 has run
NoIndex == [num |-> 0, den |-> 0]

CredentialValues == { None, "", "key" }

Init ==
    /\ CLIENT_ID \in CredentialValues
    /\ CLIENT_SECRET \in CredentialValues
    /\ now = 0
    /\ cache = [k \in CacheKeys |-> NoEntry]
    /\ rng = Unseeded
    /\ pc = "idle"
    /\ total_display = 0
    /\ start = 0
    /\ all_items = << >>
    /\ requests = << >>
    /\ last = [fn |-> "none", key |-> TrendKey, hit |-> FALSE, missing |-> FALSE,
               done |-> TRUE, after_tab1 |-> FALSE, tab1 |-> FALSE]
    /\ df_trend = Unset
    /\ df_shop = Unset
    /\ df_blog = Unset
    /\ tier_stats = << >>
    /\ hhi_index = NoIndex
    /\ word_freq = Unset
    /\ upstream \in Upstreams
    /\ calls = 0

\* Lines 60-75 run again on every rerun of the script in the same process.
\* load_dotenv never replaces or removes a variable the process already
\* has, so a credential that is set keeps its value and one that is unset
\* may appear.
init_env ==
    /\ pc = "idle"
    /\ CLIENT_ID' \in (IF CLIENT_ID = None THEN CredentialValues ELSE { CLIENT_ID })
    /\ CLIENT_SECRET' \in (IF CLIENT_SECRET = None THEN CredentialValues ELSE { CLIENT_SECRET })
    /\ << CLIENT_ID', CLIENT_SECRET' >> # << CLIENT_ID, CLIENT_SECRET >>
    /\ UNCHANGED << now, cache, rng, pc, total_display, start, all_items, requests, last,
                    df_trend, df_shop, df_blog, tier_stats, hhi_index, word_freq,
                    upstream, calls >>

\* Instants at which the clock is read: around one ttl after 0 and after 1.
ClockInstants == { t \in { 1, 3599, 3600, 3601, 7200 } : t <= MaxTime }

\* Time passes between calls: the clock moves on to the instant t.
Tick(t) ==
    /\ pc = "idle"
    /\ t > now
    /\ now' = t
    /\ UNCHANGED << CLIENT_ID, CLIENT_SECRET, cache, rng, pc, total_display, start, all_items,
                    requests, last, df_trend, df_shop, df_blog, tier_stats, hhi_index, word_freq,
                    upstream, calls >>

CanCall == pc = "idle"

\* Lines 83-103, one call through the cache wrapper.
get_datalab_trend(status, results) ==
    /\ CanCall
    /\ IF CacheHit(TrendKey)
       THEN /\ df_trend' = cache[TrendKey].value
            /\ last' = CallRecord("trend", TrendKey, TRUE, TRUE)
            /\ requests' = << >>
            /\ cache' = cache
       ELSE IF CredentialsMissing
       THEN /\ df_trend' = NoneValue
            /\ last' = CallRecord("trend", TrendKey, FALSE, TRUE)
            /\ requests' = << >>
            /\ cache' = CacheAfter(TrendKey, NoneValue)
       ELSE /\ df_trend' = TrendValue(status, results)
            /\ last' = CallRecord("trend", TrendKey, FALSE, TRUE)
            /\ requests' = << [endpoint |-> "datalab", start |-> 0, status |-> status] >>
            /\ cache' = CacheAfter(TrendKey, TrendValue(status, results))
    /\ UNCHANGED << CLIENT_ID, CLIENT_SECRET, now, rng, pc, total_display, start, all_items,
                    df_shop, df_blog, tier_stats, hhi_index, word_freq, upstream, calls >>

\* Lines 149-161, one call through the cache wrapper.
get_blog_data(status, items) ==
    /\ CanCall
    /\ IF CacheHit(BlogKey)
       THEN /\ df_blog' = cache[BlogKey].value
            /\ last' = CallRecord("blog", BlogKey, TRUE, TRUE)
            /\ requests' = << >>
            /\ cache' = cache
       ELSE IF CredentialsMissing
       THEN /\ df_blog' = NoneValue
            /\ last' = CallRecord("blog", BlogKey, FALSE, TRUE)
            /\ requests' = << >>
            /\ cache' = CacheAfter(BlogKey, NoneValue)
       ELSE /\ df_blog' = BlogValue(status, items)
            /\ last' = CallRecord("blog", BlogKey, FALSE, TRUE)
            /\ requests' = << [endpoint |-> "blog", start |-> 0, status |-> status] >>
            /\ cache' = CacheAfter(BlogKey, BlogValue(status, items))
    /\ word_freq' = Unset
    /\ UNCHANGED << CLIENT_ID, CLIENT_SECRET, now, rng, pc, total_display, start, all_items,
                    df_trend, df_shop, tier_stats, hhi_index, upstream, calls >>

InRangeShort(s, n) == s < n

\* range(1, total_display + 1, 100) of line 116: the loop body runs for s.
InRange(s, n) == s < n + 1

NextStart(s) == s + PageSize

\* Lines 105-114: the call through the cache wrapper up to the loop.
get_shopping_data(n) ==
    /\ CanCall
    /\ calls < MaxCalls
    /\ calls' = calls + 1
    /\ IF CacheHit(ShopKey(n))
       THEN /\ df_shop' = cache[ShopKey(n)].value
            /\ last' = CallRecord("shop", ShopKey(n), TRUE, TRUE)
            /\ requests' = << >>
            /\ UNCHANGED << cache, pc, total_display, start, all_items >>
            /\ tier_stats' = << >>
            /\ hhi_index' = NoIndex
       ELSE IF CredentialsMissing
       THEN /\ df_shop' = NoneValue
            /\ last' = CallRecord("shop", ShopKey(n), FALSE, TRUE)
            /\ requests' = << >>
            /\ cache' = CacheAfter(ShopKey(n), NoneValue)
            /\ UNCHANGED << pc, total_display, start, all_items >>
            /\ tier_stats' = << >>
            /\ hhi_index' = NoIndex
       ELSE /\ last' = CallRecord("shop", ShopKey(n), FALSE, FALSE)
            /\ requests' = << >>
            /\ total_display' = n
            /\ all_items' = << >>
            /\ start' = 1
            /\ pc' = IF InRange(1, n) THEN "loop" ELSE "after_loop"
            /\ UNCHANGED << cache, df_shop, tier_stats, hhi_index >>
    /\ UNCHANGED << CLIENT_ID, CLIENT_SECRET, now, rng, df_trend, df_blog, word_freq, upstream >>

\* all_items.extend(res.json()['items']), line 120
Extend(items, page) == items \o page

\* Lines 116-122: one iteration of the loop.
shop_request(status) ==
    /\ pc = "loop"
    /\ requests' = Append(requests, [endpoint |-> "shop", start |-> start, status |-> status])
    /\ IF status = 200
       THEN /\ all_items' = Extend(all_items, PageItems(upstream, start))
            /\ start' = NextStart(start)
            /\ pc' = IF InRange(NextStart(start), total_display) THEN "loop" ELSE "after_loop"
       ELSE /\ pc' = "after_loop"
            /\ UNCHANGED << all_items, start >>
    /\ UNCHANGED << CLIENT_ID, CLIENT_SECRET, now, cache, rng, total_display, last, df_trend,
                    df_shop, df_blog, tier_stats, hhi_index, word_freq, upstream, calls >>

\* Value of lines 124-147 for the collected items: [outcome, rows, rng]
ShopValue(items, r) ==
    IF items = << >> THEN [outcome |-> "none", rows |-> << >>, rng |-> r]
    ELSE ProcessListings(items, r)

\* Lines 124-147 and the return through the cache wrapper.
shop_return ==
    /\ pc = "after_loop"
    /\ LET res == ShopValue(all_items, rng)
           val == [outcome |-> res.outcome, rows |-> res.rows]
       IN  /\ df_shop' = val
           /\ rng' = res.rng
           /\ cache' = CacheAfter(last.key, val)
    /\ last' = [last EXCEPT !.done = TRUE]
    /\ pc' = "idle"
    /\ total_display' = 0
    /\ start' = 0
    /\ all_items' = << >>
    /\ tier_stats' = << >>
    /\ hhi_index' = NoIndex
    /\ UNCHANGED << CLIENT_ID, CLIENT_SECRET, now, requests, df_trend, df_blog, word_freq,
                    upstream, calls >>

-----------------------------------------------------------------------------
(* main(): the parts that read or change the state above.                  *)

\* Lines 186-198: main goes on to the tabs only with credentials and with
\* three frames.
TabsShown ==
    /\ pc = "idle"
    /\ ~CredentialsMissing
    /\ df_trend.outcome = "frame"
    /\ df_shop.outcome = "frame"
    /\ df_blog.outcome = "frame"

\* len(suggested), lines 231-239: six for the first market_map entry, four
\* for the other entries and for the fallback list.
SuggestedLengths == { 4, 6 }

\* Lines 244-248: two draws from the global generator, never seeded here.
\* Tab 1 is drawn once per run of the script.
main_related_keywords ==
    /\ TabsShown
    /\ ~last.tab1
    /\ \E k \in SuggestedLengths :
       LET strength == randint(rng, 70, 99, k)
           growth   == choice(strength.rng, << "up", "steady", "down" >>, << 400, 900, 1000 >>, k)
       IN  rng' = growth.rng
    /\ last' = [last EXCEPT !.tab1 = TRUE]
    /\ UNCHANGED << CLIENT_ID, CLIENT_SECRET, now, cache, pc, total_display, start, all_items,
                    requests, df_trend, df_shop, df_blog, tier_stats, hhi_index, word_freq, upstream,
                    calls >>

\* Line 307
bins == << 0, 10000, 30000, 50000, 100000, 1000000 >>

\* Line 308; the five Korean labels are written in ASCII.
labels == << "le_10k", "10k_30k", "30k_50k", "50k_100k", "ge_100k" >>

\* pd.cut(x, bins=bins, labels=labels).astype(str), line 310: the intervals
\* are open on the left and closed on the right, and a value in none of
\* them becomes the text "nan".
price_tier(x) ==
    IF \E k \in 1..Len(labels) : bins[k] < x /\ x <= bins[k + 1]
    THEN labels[CHOOSE k \in 1..Len(labels) : bins[k] < x /\ x <= bins[k + 1]]
    ELSE "nan"

\* Line 311: one row per tier text that occurs, with its number of items.
TierStats(rows) ==
    LET tier == [i \in 1..Len(rows) |-> price_tier(rows[i].lprice)]
    IN  [t \in Range(tier) |-> Cardinality({ i \in 1..Len(rows) : tier[i] = t })]

main_price_tier ==
    /\ TabsShown
    /\ tier_stats' = TierStats(df_shop.rows)
    /\ UNCHANGED << CLIENT_ID, CLIENT_SECRET, now, cache, rng, pc, total_display, start,
                    all_items, requests, last, df_trend, df_shop, df_blog, hhi_index, word_freq,
                    upstream, calls >>

value_counts_dropempty(col) ==
    [b \in Range(col) \ { "" } |-> Cardinality({ i \in 1..Len(col) : col[i] = b })]

\* Series.value_counts() over a column of strings: text -> occurrences
value_counts(col) ==
    [b \in Range(col) |-> Cardinality({ i \in 1..Len(col) : col[i] = b })]

RECURSIVE SumSquares(_, _)
SumSquares(f, keys) ==
    IF keys = {} THEN 0
    ELSE LET k == CHOOSE x \in keys : TRUE
         IN  f[k] * f[k] + SumSquares(f, keys \ { k })

\* Lines 451-452: ((value_counts / len) ** 2).sum() * 10000, kept as the
\* fraction num / den.
HHI(rows) ==
    LET counts == value_counts([i \in 1..Len(rows) |-> rows[i].brand])
    IN  [num |-> 10000 * SumSquares(counts, DOMAIN counts), den |-> Len(rows) * Len(rows)]

main_hhi ==
    /\ TabsShown
    /\ hhi_index' = HHI(df_shop.rows)
    /\ UNCHANGED << CLIENT_ID, CLIENT_SECRET, now, cache, rng, pc, total_display, start,
                    all_items, requests, last, df_trend, df_shop, df_blog, tier_stats,
                    word_freq, upstream, calls >>

-----------------------------------------------------------------------------
(* main(), tab 3: keyword frequency of the blog posts, lines 379-386.      *)
(* Text is a tuple of characters.  The stop-words of line 381 are Korean;  *)
(* each syllable is written here as one capital letter, so that every word *)
(* keeps its length: the fifth one is a single syllable.                   *)

\* Line 381
stopwords ==
    << << "A", "B" >>, << "C", "D" >>, << "E", "F" >>, << "G", "D" >>, << "H" >>,
       << "I", "J" >>, << "K", "B" >>, << "L", "M" >>, << "N", "O" >>, << "P", "Q" >>,
       << "R", "S" >>, << "T", "U" >>, << "V", "W" >>, << "X", "Y" >> >>

\* Characters str.split() with no argument separates on
Whitespace == { " ", "\t", "\n" }

\* " ".join(texts)
RECURSIVE Join(_)
Join(texts) ==
    IF texts = << >> THEN << >>
    ELSE IF Len(texts) = 1 THEN texts[1]
    ELSE texts[1] \o << " " >> \o Join(Tail(texts))

\* Line 379: " ".join(df_blog['title'] + " " + df_blog['description'])
AllText(rows) ==
    Join([i \in 1..Len(rows) |-> rows[i].title \o << " " >> \o rows[i].description])

\* str.split(): the maximal runs of characters that are not whitespace, in
\* the order in which they start
split(s) ==
    LET n == Len(s)
        IsWs(i) == s[i] \in Whitespace
        Starts(i) == ~IsWs(i) /\ (i = 1 \/ IsWs(i - 1))
        starts == SelectSeq([i \in 1..n |-> i], Starts)
        EndOf(i) == CHOOSE j \in i..n :
                        /\ \A k \in i..j : ~IsWs(k)
                        /\ j = n \/ IsWs(j + 1)
    IN  [k \in 1..Len(starts) |-> SubSeq(s, starts[k], EndOf(starts[k]))]

\* Line 384: len(w) > 1 and w not in stopwords
Keeps(w) == Len(w) > 1 /\ w \notin Range(stopwords)

\* Line 384
Words(text) == SelectSeq(split(text), Keeps)

\* The sequences that hold every element of S once
RECURSIVE Perms(_)
Perms(S) ==
    IF S = {} THEN { << >> }
    ELSE UNION { { << x >> \o p : p \in Perms(S \ { x }) } : x \in S }

\* Series.sort_values(ascending=False), as value_counts calls it: the keys
\* by descending count.  The sort is the default one, which is not stable,
\* so keys of equal count come out in an order the call does not fix.
RECURSIVE Descending(_, _)
Descending(counts, keys) ==
    IF keys = {} THEN { << >> }
    ELSE LET top  == CHOOSE c \in { counts[k] : k \in keys } :
                         \A k \in keys : counts[k] <= c
             tied == { k \in keys : counts[k] = top }
         IN  { p \o rest : p \in Perms(tied), rest \in Descending(counts, keys \ tied) }

\* head(n)
head(s, n) == SubSeq(s, 1, Min(n, Len(s)))

TopRows == 20

\* Line 385: pd.Series(words).value_counts().head(20).reset_index(), one
\* table for each order the sort may leave.  The two columns, named in
\* Korean at line 386, are keyword and count.
WordFreqTables(words) ==
    LET counts == value_counts(words)
    IN  { [outcome |-> "frame",
           rows |-> [i \in 1..Min(TopRows, Len(order)) |->
                        [keyword |-> order[i], count |-> counts[order[i]]]]] :
          order \in Descending(counts, DOMAIN counts) }

\* Line 360: df_blog['postdate'].max().strftime(...) raises when no date
\* of the frame parsed, and the script stops before line 379.
LatestPostShown == \E i \in 1..Len(df_blog.rows) : ~df_blog.rows[i].postdate.isnat

\* Lines 379-386
main_keyword_frequency ==
    /\ TabsShown
    /\ LatestPostShown
    /\ word_freq' \in WordFreqTables(Words(AllText(df_blog.rows)))
    /\ UNCHANGED << CLIENT_ID, CLIENT_SECRET, now, cache, rng, pc, total_display, start,
                    all_items, requests, last, df_trend, df_shop, df_blog, tier_stats,
                    hhi_index, upstream, calls >>

-----------------------------------------------------------------------------

Next ==
    \/ init_env
    \/ \E t \in ClockInstants : Tick(t)
    \/ \E status \in HttpStatuses, results \in TrendPayloads : get_datalab_trend(status, results)
    \/ \E n \in RequestedCounts : get_shopping_data(n)
    \/ \E status \in HttpStatuses : shop_request(status)
    \/ shop_return
    \/ \E status \in HttpStatuses, items \in BlogPayloads : get_blog_data(status, items)
    \/ main_related_keywords
    \/ main_price_tier
    \/ main_hhi
    \/ main_keyword_frequency

Spec == Init /\ [][Next]_vars

\* The shopping fetch alone, against every remote index.
NextShop ==
    \/ \E n \in RequestedCounts : get_shopping_data(n)
    \/ \E status \in HttpStatuses : shop_request(status)
    \/ shop_return

SpecShop == Init /\ [][NextShop]_vars

\* Remote indexes of at most one listing, and one whose second listing has
\* a price that is not a number.
SmallUpstreams ==
    { u \in Upstreams : \/ u.catalog = CatalogDuo /\ u.available <= 1
                        \/ u.catalog = CatalogDirty /\ u.available = 150 }

\* The three fetches under every combination of credentials, with reruns of
\* the script that reload the environment.
InitCreds == Init /\ upstream \in SmallUpstreams

NextCreds ==
    \/ init_env
    \/ \E status \in HttpStatuses, results \in TrendPayloads : get_datalab_trend(status, results)
    \/ \E n \in RequestedCounts : get_shopping_data(n)
    \/ \E status \in HttpStatuses : shop_request(status)
    \/ shop_return
    \/ \E status \in HttpStatuses, items \in BlogPayloads : get_blog_data(status, items)

SpecCreds == InitCreds /\ [][NextCreds]_vars

\* The cache over time: the trend fetch and the shopping fetch for two
\* requested counts, with credentials present or one of them empty.
CachedCounts == { 1, 101 }

InitCache == Init /\ upstream \in SmallUpstreams /\ CLIENT_ID = "key" /\ CLIENT_SECRET \in { "key", "" }

NextCache ==
    \/ \E t \in ClockInstants : Tick(t)
    \/ \E status \in HttpStatuses, results \in TrendPayloads : get_datalab_trend(status, results)
    \/ \E n \in CachedCounts : get_shopping_data(n)
    \/ \E status \in HttpStatuses : shop_request(status)
    \/ shop_return

SpecCache == InitCache /\ [][NextCache]_vars

\* One session of main() with credentials and with the trend and blog
\* endpoints answering: the three fetches and the tabs.
MainCounts == { 101, 250 }

FullTrend == CHOOSE p \in TrendPayloads : p # << >>

FullBlog == CHOOSE p \in BlogPayloads : p # << >>

\* Remote indexes for the session: one listing, or a page and a half.
MainUpstreams == { u \in Upstreams : u.available \in { 1, 150 } }

InitMain == Init /\ CLIENT_ID = "key" /\ CLIENT_SECRET = "key" /\ upstream \in MainUpstreams

NextMain ==
    \/ get_datalab_trend(200, FullTrend)
    \/ \E n \in MainCounts : get_shopping_data(n)
    \/ \E status \in HttpStatuses : shop_request(status)
    \/ shop_return
    \/ get_blog_data(200, FullBlog)
    \/ main_related_keywords
    \/ main_price_tier
    \/ main_hhi

SpecMain == InitMain /\ [][NextMain]_vars

\* res.json()['items'] of the blog endpoint for the keyword table: no post,
\* and the five corpora that follow.
\* Posts whose title and description are empty.
CorpusBlank ==
    << [title |-> << >>,
       description |-> << >>,
       postdate |-> << "2", "0", "2", "4", "0", "1", "0", "1" >>],
       [title |-> << >>,
       description |-> << >>,
       postdate |-> << "2", "0", "2", "4", "0", "1", "0", "2" >>] >>

\* "rice VW rice good": a token twice, the stop-word VW, a token once; then
\* one-character tokens, markup and whitespace other than single blanks.
CorpusExample ==
    << [title |-> << "r", "i", "c", "e", " ", "V", "W", " ", "r", "i", "c", "e", " ", "g", "o", "o", "d" >>,
       description |-> << "a", " ", "H", " ", " ", "x" >>,
       postdate |-> << "2", "0", "2", "4", "0", "2", "2", "9" >>],
       [title |-> << "<", "b", ">", "V", "W", "<", "/", "b", ">", "\t", "V", "W" >>,
       description |-> << "V", "W", "\n", "A", "B", " " >>,
       postdate |-> << "n", "o", "t", "a", "d", "a", "t", "e" >>] >>

\* Two tokens seen once each, before and after a token seen twice.
CorpusTies ==
    << [title |-> << "t", "e", "a", " ", "r", "i", "c", "e" >>,
       description |-> << "o", "a", "t", " ", "<", "b", ">", "r", "i", "c", "e", "<", "/", "b", ">" >>,
       postdate |-> << "2", "0", "2", "4", "0", "1", "0", "5" >>] >>

\* Posts none of whose dates parses.
CorpusUndated ==
    << [title |-> << "r", "i", "c", "e" >>,
       description |-> << "t", "e", "a" >>,
       postdate |-> << "2", "0", "2", "4", "-", "0", "1", "-", "0", "5" >>] >>

\* Twenty-two tokens: nineteen with the counts 2..20, not in the order of
\* their counts, and three seen once; with stop-words among them.
CorpusWide ==
    << [title |-> << "k", "0", " ", "k", "0", " ", "k", "0", " ", "k", "0", " ", "k", "0" >>,
       description |-> << "k", "0", " ", "k", "0", " ", "k", "0", " ", "k", "0", " ", "k", "0", " ", "k", "0" >>,
       postdate |-> << "2", "0", "2", "4", "0", "1", "0", "1" >>],
       [title |-> << "k", "1" >>,
       description |-> << "k", "1" >>,
       postdate |-> << "2", "0", "2", "4", "0", "1", "0", "2" >>],
       [title |-> << "k", "2", " ", "k", "2", " ", "k", "2", " ", "k", "2", " ", "k", "2", " ", "k", "2", " ", "k", "2", " ", "k", "2", " ", "k", "2", " ", "k", "2" >>,
       description |-> << "k", "2", " ", "k", "2", " ", "k", "2", " ", "k", "2", " ", "k", "2", " ", "k", "2", " ", "k", "2", " ", "k", "2", " ", "k", "2", " ", "k", "2" >>,
       postdate |-> << "2", "0", "2", "4", "0", "1", "0", "3" >>],
       [title |-> << "k", "3", " ", "k", "3" >>,
       description |-> << "k", "3", " ", "k", "3", " ", "k", "3" >>,
       postdate |-> << "2", "0", "2", "4", "0", "1", "0", "4" >>],
       [title |-> << "p", "1" >>,
       description |-> << "A", "B" >>,
       postdate |-> << "2", "0", "2", "4", "0", "1", "2", "0" >>],
       [title |-> << "k", "4", " ", "k", "4", " ", "k", "4", " ", "k", "4", " ", "k", "4", " ", "k", "4", " ", "k", "4", " ", "k", "4" >>,
       description |-> << "k", "4", " ", "k", "4", " ", "k", "4", " ", "k", "4", " ", "k", "4", " ", "k", "4", " ", "k", "4", " ", "k", "4", " ", "k", "4" >>,
       postdate |-> << "2", "0", "2", "4", "0", "1", "0", "5" >>],
       [title |-> << "k", "5", " ", "k", "5", " ", "k", "5", " ", "k", "5" >>,
       description |-> << "k", "5", " ", "k", "5", " ", "k", "5", " ", "k", "5" >>,
       postdate |-> << "2", "0", "2", "4", "0", "1", "0", "6" >>],
       [title |-> << "k", "6", " ", "k", "6", " ", "k", "6", " ", "k", "6", " ", "k", "6", " ", "k", "6", " ", "k", "6" >>,
       description |-> << "k", "6", " ", "k", "6", " ", "k", "6", " ", "k", "6", " ", "k", "6", " ", "k", "6", " ", "k", "6" >>,
       postdate |-> << "2", "0", "2", "4", "0", "1", "0", "7" >>],
       [title |-> << "k", "7" >>,
       description |-> << "k", "7", " ", "k", "7" >>,
       postdate |-> << "2", "0", "2", "4", "0", "1", "0", "8" >>],
       [title |-> << "I", "J", " ", "p", "2" >>,
       description |-> << >>,
       postdate |-> << "2", "0", "2", "4", "0", "1", "2", "1" >>],
       [title |-> << "k", "8", " ", "k", "8", " ", "k", "8", " ", "k", "8", " ", "k", "8", " ", "k", "8", " ", "k", "8", " ", "k", "8", " ", "k", "8" >>,
       description |-> << "k", "8", " ", "k", "8", " ", "k", "8", " ", "k", "8", " ", "k", "8", " ", "k", "8", " ", "k", "8", " ", "k", "8", " ", "k", "8", " ", "k", "8" >>,
       postdate |-> << "2", "0", "2", "4", "0", "1", "0", "9" >>],
       [title |-> << "k", "9", " ", "k", "9", " ", "k", "9" >>,
       description |-> << "k", "9", " ", "k", "9", " ", "k", "9" >>,
       postdate |-> << "2", "0", "2", "4", "0", "1", "1", "0" >>],
       [title |-> << "m", "0", " ", "m", "0", " ", "m", "0", " ", "m", "0", " ", "m", "0", " ", "m", "0" >>,
       description |-> << "m", "0", " ", "m", "0", " ", "m", "0", " ", "m", "0", " ", "m", "0", " ", "m", "0" >>,
       postdate |-> << "2", "0", "2", "4", "0", "1", "1", "1" >>],
       [title |-> << "m", "1", " ", "m", "1", " ", "m", "1", " ", "m", "1" >>,
       description |-> << "m", "1", " ", "m", "1", " ", "m", "1", " ", "m", "1", " ", "m", "1" >>,
       postdate |-> << "2", "0", "2", "4", "0", "1", "1", "2" >>],
       [title |-> << "m", "2", " ", "m", "2", " ", "m", "2", " ", "m", "2", " ", "m", "2", " ", "m", "2", " ", "m", "2" >>,
       description |-> << "m", "2", " ", "m", "2", " ", "m", "2", " ", "m", "2", " ", "m", "2", " ", "m", "2", " ", "m", "2", " ", "m", "2" >>,
       postdate |-> << "2", "0", "2", "4", "0", "1", "1", "3" >>],
       [title |-> << "m", "3", " ", "m", "3" >>,
       description |-> << "m", "3", " ", "m", "3" >>,
       postdate |-> << "2", "0", "2", "4", "0", "1", "1", "4" >>],
       [title |-> << "m", "4", " ", "m", "4", " ", "m", "4", " ", "m", "4", " ", "m", "4", " ", "m", "4", " ", "m", "4", " ", "m", "4", " ", "m", "4" >>,
       description |-> << "m", "4", " ", "m", "4", " ", "m", "4", " ", "m", "4", " ", "m", "4", " ", "m", "4", " ", "m", "4", " ", "m", "4", " ", "m", "4" >>,
       postdate |-> << "2", "0", "2", "4", "0", "1", "1", "5" >>],
       [title |-> << "m", "5", " ", "m", "5", " ", "m", "5" >>,
       description |-> << "m", "5", " ", "m", "5", " ", "m", "5", " ", "m", "5" >>,
       postdate |-> << "2", "0", "2", "4", "0", "1", "1", "6" >>],
       [title |-> << "m", "6", " ", "m", "6", " ", "m", "6", " ", "m", "6", " ", "m", "6", " ", "m", "6" >>,
       description |-> << "m", "6", " ", "m", "6", " ", "m", "6", " ", "m", "6", " ", "m", "6", " ", "m", "6", " ", "m", "6" >>,
       postdate |-> << "2", "0", "2", "4", "0", "1", "1", "7" >>],
       [title |-> << "m", "7", " ", "m", "7", " ", "m", "7", " ", "m", "7", " ", "m", "7" >>,
       description |-> << "m", "7", " ", "m", "7", " ", "m", "7", " ", "m", "7", " ", "m", "7" >>,
       postdate |-> << "2", "0", "2", "4", "0", "1", "1", "8" >>],
       [title |-> << "m", "8", " ", "m", "8", " ", "m", "8", " ", "m", "8", " ", "m", "8", " ", "m", "8", " ", "m", "8", " ", "m", "8" >>,
       description |-> << "m", "8", " ", "m", "8", " ", "m", "8", " ", "m", "8", " ", "m", "8", " ", "m", "8", " ", "m", "8", " ", "m", "8" >>,
       postdate |-> << "2", "0", "2", "4", "0", "1", "1", "9" >>],
       [title |-> << "p", "3" >>,
       description |-> << "V", "W" >>,
       postdate |-> << "2", "0", "2", "4", "0", "1", "2", "2" >>] >>

\* What the blog endpoint may answer in a session that shows tab 3
BlogCorpora ==
    { << >>, CorpusBlank, CorpusExample, CorpusTies, CorpusUndated, CorpusWide }

\* One session of main() up to the keyword table of tab 3: the trend and
\* the shopping fetch succeed against an index of one listing, and the blog
\* endpoint answers with any of the corpora, or fails.
BlogUpstreams == { u \in Upstreams : u.catalog = CatalogDuo /\ u.available = 1 }

InitBlog == Init /\ CLIENT_ID = "key" /\ CLIENT_SECRET = "key" /\ upstream \in BlogUpstreams

NextBlog ==
    \/ get_datalab_trend(200, FullTrend)
    \/ get_shopping_data(1)
    \/ \E status \in HttpStatuses : shop_request(status)
    \/ shop_return
    \/ \E status \in HttpStatuses, items \in BlogCorpora : get_blog_data(status, items)
    \/ main_keyword_frequency

SpecBlog == InitBlog /\ [][NextBlog]_vars

-----------------------------------------------------------------------------
(* Properties of the shopping fetch                                        *)

ShopCallDone == pc = "idle" /\ last.fn = "shop" /\ last.done

\* The call ran the body of get_shopping_data past the credential check.
ShopFetched == ShopCallDone /\ ~last.hit /\ ~last.missing

Requested == last.key[2]

CeilDiv(a, b) == (a + b - 1) \div b

\* The items of the successful requests among the first k, in call order.
RECURSIVE Collected(_)
Collected(k) ==
    IF k = 0 THEN << >>
    ELSE Collected(k - 1) \o (IF requests[k].status = 200
                              THEN PageItems(upstream, requests[k].start) ELSE << >>)

\* The frame holds the given listings, one row each, in the same order.
RowsHold(rows, items) ==
    /\ Len(rows) = Len(items)
    /\ \A i \in 1..Len(items) :
          /\ Num(rows[i].lprice) = to_numeric(items[i].lprice)
          /\ rows[i].hprice = to_numeric(items[i].hprice)
          /\ rows[i].brand = items[i].brand
          /\ rows[i].productType = items[i].productType

\* C2: the shopping fetch never returns more records than the requested
\* count N.
C2_ResultWithinRequested ==
    (ShopCallDone /\ df_shop.outcome = "frame") => Len(df_shop.rows) <= Requested

\* C3: when a paged call k >= 2 fails, no later call is issued and the
\* function returns the records of calls 1..k-1 in page order, the failure
\* result only when no record was collected.
C3_FailureKeepsEarlierPages ==
    /\ \A i \in 1..Len(requests) :
          (requests[i].endpoint = "shop" /\ requests[i].status # 200) => i = Len(requests)
    /\ (ShopFetched /\ Len(requests) >= 2 /\ requests[Len(requests)].status # 200) =>
          LET got == Collected(Len(requests) - 1)
          IN  IF got = << >> THEN df_shop.outcome = "none"
              ELSE df_shop.outcome = "frame" /\ RowsHold(df_shop.rows, got)

\* C4: with every call succeeding the fetch issues exactly ceil(N/100)
\* calls, at start offsets 1, 101, 201, ..., and a call is only ever issued
\* while fewer than N records have been collected.
C4_CallsAndOffsets ==
    /\ \A i \in 1..Len(requests) :
          requests[i].endpoint = "shop" => requests[i].start = PageSize * (i - 1) + 1
    /\ pc = "loop" => Len(all_items) < total_display
    /\ (ShopFetched /\ \A i \in 1..Len(requests) : requests[i].status = 200) =>
          Len(requests) = CeilDiv(Requested, PageSize)

\* C4 witness: a fetch of 250 that made three successful calls and
\* collected three full pages.
C4_Witness ==
    /\ ShopFetched
    /\ Requested = 250
    /\ Len(requests) = 3
    /\ \A i \in 1..3 : requests[i].status = 200
    /\ df_shop.outcome = "frame"
    /\ Len(df_shop.rows) = 3 * PageSize

C10_PipelineDoesNotRaise ==
    (ShopCallDone /\ ~last.hit) => df_shop.outcome # "raised"

-----------------------------------------------------------------------------
(* Properties of the credential check and of the cache                     *)

CredentialAbsent(x) == x \in { None, "" }

Result(fn) == IF fn = "trend" THEN df_trend ELSE IF fn = "shop" THEN df_shop ELSE df_blog

\* C1: whenever a credential is missing or empty, a call of any of the
\* three acquisition functions returns the failure result and issues no
\* network call.
C1_MissingCredentialsNoNetwork ==
    (CredentialAbsent(CLIENT_ID) \/ CredentialAbsent(CLIENT_SECRET)) =>
       /\ pc = "idle"
       /\ last.fn # "none" => (Result(last.fn).outcome = "none" /\ requests = << >>)

\* C1 witness: get_blog_data was called with an empty secret and a set id,
\* and its None is what the cache now holds.
C1_Witness ==
    /\ last.fn = "blog"
    /\ last.missing
    /\ CLIENT_ID = "key"
    /\ CLIENT_SECRET = ""
    /\ df_blog.outcome = "none"
    /\ cache[BlogKey].present

TrendCall == \E status \in HttpStatuses, results \in TrendPayloads : get_datalab_trend(status, results)

\* C6: with a TTL of 3600 seconds, a call whose key has an entry younger
\* than 3600 seconds returns the stored value, failure or not, without
\* running the function (no network call, store untouched); any other call
\* runs the function and, when it returns, stores its value at the current
\* time.
C6_CacheWindow ==
    [][ /\ TrendCall =>
             LET e == cache[TrendKey]
             IN  IF e.present /\ now < e.stored + 3600
                 THEN df_trend' = e.value /\ requests' = << >> /\ cache' = cache
                 ELSE /\ cache'[TrendKey] = [present |-> TRUE, value |-> df_trend', stored |-> now]
                      /\ ~(CredentialAbsent(CLIENT_ID) \/ CredentialAbsent(CLIENT_SECRET))
                            => Len(requests') = 1
        /\ \A n \in RequestedCounts : get_shopping_data(n) =>
             LET e == cache[ShopKey(n)]
             IN  IF e.present /\ now < e.stored + 3600
                 THEN /\ df_shop' = e.value
                      /\ requests' = << >>
                      /\ cache' = cache
                      /\ rng' = rng
                      /\ pc' = "idle"
                 ELSE IF CredentialAbsent(CLIENT_ID) \/ CredentialAbsent(CLIENT_SECRET)
                      THEN cache'[ShopKey(n)] = [present |-> TRUE, value |-> df_shop', stored |-> now]
                      ELSE pc' = "loop" /\ total_display' = n
        /\ (pc = "after_loop" /\ pc' = "idle" /\ df_shop'.outcome # "raised") =>
             cache'[last.key] = [present |-> TRUE, value |-> df_shop', stored |-> now]
      ]_vars

\* C6 witness: a shopping call made 3599 seconds after a failure was stored
\* for its key was answered with that failure from the store.
C6_Witness ==
    /\ last.fn = "shop"
    /\ last.hit
    /\ cache[last.key].present
    /\ now = cache[last.key].stored + 3599
    /\ cache[last.key].value.outcome = "none"
    /\ df_shop.outcome = "none"
    /\ requests = << >>

-----------------------------------------------------------------------------
(* Properties of the simulation and of the reducers of main()              *)

\* The frames of get_shopping_data that the program holds.
ShopFrames ==
    { cache[ShopKey(n)].value :
        n \in { m \in RequestedCounts : cache[ShopKey(m)].present
                                         /\ cache[ShopKey(m)].value.outcome = "frame" } }
    \cup (IF df_shop.outcome = "frame" THEN { df_shop } ELSE {})

\* The columns that come from the listings, before the simulation.
RawColumns(rows) ==
    [i \in 1..Len(rows) |->
        [lprice |-> rows[i].lprice, hprice |-> rows[i].hprice, brand |-> rows[i].brand,
         productType |-> rows[i].productType]]

\* C7: two runs of the simulation over the same listings in the same order
\* give every position the same delivery-fee flag and amount, discount
\* rate, original price and option price band, whatever was drawn from the
\* generator in between.
C7_SimulationReproducible ==
    \A f, g \in ShopFrames : RawColumns(f.rows) = RawColumns(g.rows) => f.rows = g.rows

\* C7 witness: a fetch that ran the simulation after tab 1 had drawn from
\* the global generator, and produced the frame that an earlier run had
\* stored under another key.
C7_Witness ==
    /\ ShopFetched
    /\ last.after_tab1
    /\ df_shop.outcome = "frame"
    /\ \E n \in RequestedCounts :
          /\ ShopKey(n) # last.key
          /\ cache[ShopKey(n)].present
          /\ cache[ShopKey(n)].value = df_shop

RECURSIVE SumOver(_, _)
SumOver(F(_), S) ==
    IF S = {} THEN 0
    ELSE LET x == CHOOSE y \in S : TRUE IN F(x) + SumOver(F, S \ { x })

\* C8: for n listings the brand concentration index is
\* 10000 * sum over brands of (count/n)^2, the shares sum to 1, one brand
\* holding every listing gives 10000 and two brands at 50/50 give 5000.
C8_BrandConcentration ==
    hhi_index # NoIndex =>
       /\ df_shop.outcome = "frame"
       /\ LET col    == [i \in 1..Len(df_shop.rows) |-> df_shop.rows[i].brand]
              n      == Len(col)
              brands == Range(col)
              Count(b)  == Len(SelectSeq(col, LAMBDA x : x = b))
              Square(b) == Count(b) * Count(b)
          IN  /\ hhi_index.den = n * n
              /\ hhi_index.num = 10000 * SumOver(Square, brands)
              /\ SumOver(Count, brands) = n
              /\ Cardinality(brands) = 1 => hhi_index.num = 10000 * hhi_index.den
              /\ (Cardinality(brands) = 2 /\ \A b \in brands : 2 * Count(b) = n)
                    => hhi_index.num = 5000 * hhi_index.den

\* C8 witness: the index of a frame split 50/50 between two brands.
C8_Witness ==
    /\ hhi_index # NoIndex
    /\ Len(df_shop.rows) >= 2
    /\ Cardinality({ df_shop.rows[i].brand : i \in 1..Len(df_shop.rows) }) = 2
    /\ hhi_index.num = 5000 * hhi_index.den

\* Band of a price by the five fixed boundaries.
Band(x) ==
    IF x <= 10000 THEN 1 ELSE IF x <= 30000 THEN 2 ELSE IF x <= 50000 THEN 3
    ELSE IF x <= 100000 THEN 4 ELSE 5

\* C9: every item with an integer price >= 0 is counted in exactly one of
\* the five bands by the fixed boundaries, price 0 in the lowest band and a
\* price above 1,000,000 in the highest, so the band counts sum to the
\* number of items.
C9_TiersPartition ==
    tier_stats # << >> =>
       LET rows == df_shop.rows
           InTable(k) == IF labels[k] \in DOMAIN tier_stats THEN tier_stats[labels[k]] ELSE 0
       IN  /\ DOMAIN tier_stats \subseteq Range(labels)
           /\ \A k \in 1..Len(labels) :
                 InTable(k) = Cardinality({ i \in 1..Len(rows) : Band(rows[i].lprice) = k })
           /\ SumOver(InTable, 1..Len(labels)) = Len(rows)

-----------------------------------------------------------------------------
(* Properties of the keyword table                                         *)

\* The whitespace-separated tokens of the text the table was computed from
CorpusTokens == split(AllText(df_blog.rows))

\* Number of whitespace-separated occurrences of w in the corpus
Occurrences(w) == Cardinality({ k \in 1..Len(CorpusTokens) : CorpusTokens[k] = w })

\* Position at which w is first encountered in the corpus
FirstEncounter(w) ==
    CHOOSE k \in 1..Len(CorpusTokens) :
        /\ CorpusTokens[k] = w
        /\ \A j \in 1..(k - 1) : CorpusTokens[j] # w

TableShown == word_freq.outcome = "frame"

\* No listed token has length <= 1 or is a stop-word.
KeywordsFiltered ==
    TableShown =>
        \A i \in 1..Len(word_freq.rows) :
            /\ Len(word_freq.rows[i].keyword) > 1
            /\ word_freq.rows[i].keyword \notin Range(stopwords)

\* Each listed count is the token's number of occurrences in the corpus.
CountsExact ==
    TableShown =>
        \A i \in 1..Len(word_freq.rows) :
            /\ word_freq.rows[i].count = Occurrences(word_freq.rows[i].keyword)
            /\ word_freq.rows[i].count >= 1

\* The table has at most 20 rows, and no token is listed twice.
AtMostTopRows ==
    TableShown =>
        /\ Len(word_freq.rows) <= TopRows
        /\ \A i, j \in 1..Len(word_freq.rows) :
               word_freq.rows[i].keyword = word_freq.rows[j].keyword => i = j

\* Counts do not increase down the table.
CountsDescending ==
    TableShown =>
        \A i, j \in 1..Len(word_freq.rows) :
            i < j => word_freq.rows[i].count >= word_freq.rows[j].count

\* Rows of equal count are in the order in which their tokens are first
\* encountered.
TiesFirstEncountered ==
    TableShown =>
        \A i, j \in 1..Len(word_freq.rows) :
            i < j /\ word_freq.rows[i].count = word_freq.rows[j].count
                => FirstEncounter(word_freq.rows[i].keyword)
                       < FirstEncounter(word_freq.rows[j].keyword)

\* A corpus that leaves no token gives a table without rows.
NoTokenNoRow ==
    TableShown /\ Words(AllText(df_blog.rows)) = << >> => word_freq.rows = << >>

\* The blog fetch does not end in an error, whatever the endpoint answers,
\* an answer without any post included.
BlogFetchReturns == df_blog.outcome # "raised"

\* C11: the keyword table lists no token of length <= 1 and no stop-word;
\* each listed count is the token's number of whitespace-separated
\* occurrences in the concatenated title and description text; the table has
\* at most 20 rows in descending order of count, ties in first-encountered
\* order; and an entirely empty corpus gives an empty table, not an error.
C11_KeywordFrequency ==
    /\ KeywordsFiltered
    /\ CountsExact
    /\ AtMostTopRows
    /\ CountsDescending
    /\ TiesFirstEncountered
    /\ NoTokenNoRow
    /\ BlogFetchReturns

====
